---- MODULE Spec2Model ----
(***************************************************************************)
(* A model of the reservoir GIS server: configuration loading (config.py), *)
(* the Earth Engine session and the cached study-area geometry             *)
(* (ee_client.py), request validation (models.py), the analysis            *)
(* orchestrator (services/analysis_service.py), the layer catalog          *)
(* (services/layer_definitions.py) and the two HTTP routes (main.py).      *)
(*                                                                         *)
(* The remote compute service is the environment: every blocking remote    *)
(* call either returns a value that depends on the requested region, or    *)
(* raises.  Python's None is modelled by a flag or a sentinel of the same   *)
(* type as the value it replaces.  Floating-point numbers are modelled by   *)
(* integers; a percentage is kept in units of 1/PctScale of a point.        *)
(***************************************************************************)
EXTENDS Integers, Sequences, FiniteSets, TLC

VARIABLES
    environ,      \* os.environ of the process
    phase,        \* how far module import has got: start, config, layers, serving, crashed
    settings,     \* config.settings
    credentials,  \* truthiness of ee.data._credentials
    nInitialize,  \* number of ee.Initialize calls made so far
    nCredentials, \* number of ee.ServiceAccountCredentials objects created so far
    geomCache,    \* the lru_cache of get_algeria_geometry
    nGeomBuilds,  \* number of times the body of get_algeria_geometry has run
    nGeomCalls,   \* number of calls of get_algeria_geometry
    request,      \* the last POST /analysis body received, and the region's data
    pc,           \* the remote call the handler is blocked on, or "idle"
    work,         \* the local variables of run_analysis / _evaluate_layer
    nRemote,      \* remote calls issued on behalf of the last POST /analysis
    calls,        \* those calls in the order they were issued, each with its layer
    entered,      \* whether run_analysis was entered for the last POST /analysis
    raised,       \* the exception run_analysis raised for it ("" when none)
    response,     \* the last HTTP response sent
    nRequests,    \* number of POST /analysis requests received
    arg,          \* argument of a function applied on its own (<<>> when none)
    ret           \* its result (<<>> before the call)

vars == <<environ, phase, settings, credentials, nInitialize, nCredentials,
          geomCache, nGeomBuilds, nGeomCalls, request, pc, work, nRemote,
          calls, entered, raised, response, nRequests, arg, ret>>

procVars == <<phase, settings, credentials, nInitialize, nCredentials,
              geomCache, nGeomBuilds, nGeomCalls, request, pc, work, nRemote,
              calls, entered, raised, response, nRequests>>

----------------------------------------------------------------------------
(* Bounds *)

MaxRequests == 2    \* POST /analysis requests per behaviour
MaxCount == 3       \* largest pixel count of one class in a histogram
PctScale == 1000    \* units per percentage point
PixelMargin == 50   \* how far below 0 and above 100 a pixel value may lie, in hundredths

----------------------------------------------------------------------------
(* config.py *)

Absent == "<absent>"      \* dict.get(key) of a key that is not in the mapping

EnvKeys == {"EE_SERVICE_ACCOUNT", "EE_CREDENTIALS_PATH", "ALGERIA_REGION_ASSET",
            "EE_DEFAULT_BUFFER_M", "EE_PRIVATE_KEY"}

DefaultAssetId == "projects/ee-bensefiasofian/assets/Maine"

ServiceAccountValues == {Absent, "", "svc@project.iam"}
CredentialsPathValues == {Absent, "", "key.json", "/etc/ee/key.json"}
AssetValues == {Absent, "users/x/algeria"}
BufferEnvValues == {Absent, "abc", "5000"}
PrivateKeyValues == {Absent, "PRIVATE-KEY"}

\* The environment mappings with the private key drawn from pk.
EnvMaps(pk) ==
    { [k \in EnvKeys |->
         CASE k = "EE_SERVICE_ACCOUNT" -> sa
           [] k = "EE_CREDENTIALS_PATH" -> cp
           [] k = "ALGERIA_REGION_ASSET" -> as
           [] k = "EE_DEFAULT_BUFFER_M" -> bm
           [] OTHER -> key ]
      : sa \in ServiceAccountValues, cp \in CredentialsPathValues,
        as \in AssetValues, bm \in BufferEnvValues, key \in pk }

\* A dict is falsy when it holds no key.
IsEmptyMapping(m) == \A k \in EnvKeys : m[k] = Absent

\* dict.get(key, default)
EnvGet(m, k, default) == IF m[k] = Absent THEN default ELSE m[k]

\* Path(p).expanduser().resolve(): a relative path is made absolute.
ResolvePath(p) == IF p = "key.json" THEN "/srv/app/key.json" ELSE p

\* int(text): the texts that parse, and their values.
IsIntText(t) == t \in {"5000", "10000"}
IntOf(t) == IF t = "5000" THEN 5000 ELSE 10000

SettingsError(msg) ==
    [err |-> msg, ee_service_account |-> "", ee_credentials_path |-> "",
     algeria_asset_id |-> "", default_buffer_m |-> 0]

NoSettings == SettingsError("not loaded")

\* Settings.from_env(env): env_is_none says that no mapping was passed.
\* `env or os.environ` also takes os.environ when env is an empty dict.
from_env(env_is_none, env, os_environ) ==
    LET data == IF env_is_none \/ IsEmptyMapping(env) THEN os_environ ELSE env
        credentials_path == EnvGet(data, "EE_CREDENTIALS_PATH", Absent)
        service_account == EnvGet(data, "EE_SERVICE_ACCOUNT", Absent)
        buffer_text == EnvGet(data, "EE_DEFAULT_BUFFER_M", "10000")
    IN  IF credentials_path \in {Absent, ""}
          THEN SettingsError("ValueError: EE_CREDENTIALS_PATH is required")
        ELSE IF service_account \in {Absent, ""}
          THEN SettingsError("ValueError: EE_SERVICE_ACCOUNT is required")
        ELSE IF ~IsIntText(buffer_text)
          THEN SettingsError("ValueError: invalid literal for int()")
        ELSE [err |-> "",
              ee_service_account |-> service_account,
              ee_credentials_path |-> ResolvePath(credentials_path),
              algeria_asset_id |-> EnvGet(data, "ALGERIA_REGION_ASSET", DefaultAssetId),
              default_buffer_m |-> IntOf(buffer_text)]

----------------------------------------------------------------------------
(* ee_client.py *)

\* What ee.ServiceAccountCredentials and ee.Initialize may do: return, or raise
\* (ee.Initialize with the credential flag left unset or already set).
InitializeOutcomes == {"ok", "credentials_raise", "initialize_raise_unset",
                       "initialize_raise_set"}

\* The session state of the ee module, as a record.
EE == [credentials |-> credentials, nInitialize |-> nInitialize,
       nCredentials |-> nCredentials, exc |-> ""]

\* initialize_earth_engine without the test of ee.data._credentials.
initialize_earth_engine_unguarded(ee, os_environ, outcome) ==
    IF os_environ["EE_PRIVATE_KEY"] \in {Absent, ""}
      THEN [ee EXCEPT !.exc = "RuntimeError: EE_PRIVATE_KEY environment variable is missing."]
    ELSE IF outcome = "credentials_raise"
      THEN [ee EXCEPT !.exc = "ValueError: could not read the private key"]
    ELSE [credentials |-> outcome \in {"ok", "initialize_raise_set"},
          nInitialize |-> ee.nInitialize + 1,
          nCredentials |-> ee.nCredentials + 1,
          exc |-> IF outcome = "ok" THEN "" ELSE "EEException: initialization failed"]

\* initialize_earth_engine(): returns at once when ee.data._credentials is set.
initialize_earth_engine(ee, os_environ, outcome) ==
    IF ee.credentials
      THEN [ee EXCEPT !.exc = ""]
    ELSE IF os_environ["EE_PRIVATE_KEY"] \in {Absent, ""}
      THEN [ee EXCEPT !.exc = "RuntimeError: EE_PRIVATE_KEY environment variable is missing."]
    ELSE IF outcome = "credentials_raise"
      THEN [ee EXCEPT !.exc = "ValueError: could not read the private key"]
    ELSE [credentials |-> outcome \in {"ok", "initialize_raise_set"},
          nInitialize |-> ee.nInitialize + 1,
          nCredentials |-> ee.nCredentials + 1,
          exc |-> IF outcome = "ok" THEN "" ELSE "EEException: initialization failed"]

NoGeometry == "<no geometry>"     \* the lru_cache holds no entry

\* ee.FeatureCollection(asset_id).geometry(): a lazy expression, no remote call.
FeatureCollectionGeometry(asset_id) == "geometry of " \o asset_id

\* get_algeria_geometry without the lru_cache.
get_algeria_geometry_uncached(cache, ee, config, os_environ, outcome) ==
    LET e == initialize_earth_engine(ee, os_environ, outcome)
    IN  IF e.exc # ""
          THEN [cache |-> cache, built |-> 1, ee |-> e, exc |-> e.exc,
                value |-> NoGeometry]
          ELSE [cache |-> cache, built |-> 1, ee |-> e, exc |-> "",
                value |-> FeatureCollectionGeometry(config.algeria_asset_id)]

\* get_algeria_geometry() under lru_cache(maxsize=1): the body runs on a miss, and
\* its result is stored only when it returns.
get_algeria_geometry(cache, ee, config, os_environ, outcome) ==
    IF cache # NoGeometry
      THEN [cache |-> cache, built |-> 0, ee |-> ee, exc |-> "", value |-> cache]
      ELSE LET e == initialize_earth_engine(ee, os_environ, outcome)
           IN  IF e.exc # ""
                 THEN [cache |-> cache, built |-> 1, ee |-> e, exc |-> e.exc,
                       value |-> NoGeometry]
                 ELSE [cache |-> FeatureCollectionGeometry(config.algeria_asset_id),
                       built |-> 1, ee |-> e, exc |-> "",
                       value |-> FeatureCollectionGeometry(config.algeria_asset_id)]

----------------------------------------------------------------------------
(* models.py *)

BufferMin == 1000
BufferMax == 50000
BufferDefault == 10000

\* buffer_meters of a request body: left out, null, or an integer.
BufferInts == {0 - 5, 0, 999, 1000, 10000, 50000, 50001}
BufferBodies == {[kind |-> "omitted", n |-> 0], [kind |-> "null", n |-> 0]}
                \cup {[kind |-> "int", n |-> v] : v \in BufferInts}

\* AnalysisRequest without le=50000.
AnalysisRequest_no_upper_bound(body) ==
    CASE body.buffer.kind = "omitted" ->
           [err |-> "", is_none |-> FALSE, buffer_meters |-> BufferDefault]
      [] body.buffer.kind = "null" ->
           [err |-> "", is_none |-> TRUE, buffer_meters |-> 0]
      [] OTHER ->
           IF body.buffer.n >= BufferMin
             THEN [err |-> "", is_none |-> FALSE, buffer_meters |-> body.buffer.n]
             ELSE [err |-> "422", is_none |-> FALSE, buffer_meters |-> 0]

\* AnalysisRequest: buffer_meters is Optional[int] = Field(10000, ge=1000, le=50000).
\* The default is not validated and None passes the bounds of an Optional field.
AnalysisRequest(body) ==
    CASE body.buffer.kind = "omitted" ->
           [err |-> "", is_none |-> FALSE, buffer_meters |-> BufferDefault]
      [] body.buffer.kind = "null" ->
           [err |-> "", is_none |-> TRUE, buffer_meters |-> 0]
      [] OTHER ->
           IF body.buffer.n >= BufferMin /\ body.buffer.n <= BufferMax
             THEN [err |-> "", is_none |-> FALSE, buffer_meters |-> body.buffer.n]
             ELSE [err |-> "422", is_none |-> FALSE, buffer_meters |-> 0]

\* A float that may be None.
Num(v) == [null |-> FALSE, v |-> v]
Null == [null |-> TRUE, v |-> 0]

\* LayerStatistics(**kwargs): every field is required and is read under its alias
\* (std_dev has the alias "stdDev"; the model does not populate by field name),
\* and a float field does not take None.
LayerStatisticsAliases == {"mean", "min", "max", "stdDev"}

LayerStatistics(kwargs) ==
    IF \E a \in LayerStatisticsAliases : a \notin DOMAIN kwargs
      THEN [exc |-> "ValidationError: stdDev Field required",
            mean |-> 0, min |-> 0, max |-> 0, std_dev |-> 0]
    ELSE IF \E a \in LayerStatisticsAliases : kwargs[a].null
      THEN [exc |-> "ValidationError: Input should be a valid number",
            mean |-> 0, min |-> 0, max |-> 0, std_dev |-> 0]
    ELSE [exc |-> "", mean |-> kwargs["mean"].v, min |-> kwargs["min"].v,
          max |-> kwargs["max"].v, std_dev |-> kwargs["stdDev"].v]

----------------------------------------------------------------------------
(* services/layer_definitions.py *)

\* LAYER_DEFINITIONS, in the order of the list.
LAYER_DEFINITIONS ==
    << [id |-> "soil_stability", scale |-> 250, compute |-> "soil_stability"],
       [id |-> "solid_rock", scale |-> 90, compute |-> "solid_rock"],
       [id |-> "water_sources", scale |-> 120, compute |-> "water_source_availability"],
       [id |-> "storage_capacity", scale |-> 120, compute |-> "water_storage_capacity"],
       [id |-> "flood_risk", scale |-> 500, compute |-> "flood_risk"],
       [id |-> "topographic_suitability", scale |-> 90, compute |-> "topographic_suitability"],
       [id |-> "drainage_density", scale |-> 120, compute |-> "drainage_density"],
       [id |-> "sun_aspect", scale |-> 250, compute |-> "aspect_sun_exposure"],
       [id |-> "wildlife_impact", scale |-> 20, compute |-> "wildlife_impact"],
       [id |-> "undisturbed_areas", scale |-> 20, compute |-> "undisturbed_areas"],
       [id |-> "groundwater_quality", scale |-> 250, compute |-> "groundwater_quality"] >>

\* The band the compute function renames its image to, and its scale.
ComputeBand(compute) ==
    CASE compute = "water_source_availability" -> "water_sources"
      [] compute = "water_storage_capacity" -> "storage_capacity"
      [] compute = "aspect_sun_exposure" -> "sun_aspect"
      [] OTHER -> compute

ComputeScale(compute) ==
    CASE compute \in {"soil_stability", "aspect_sun_exposure", "groundwater_quality"} -> 250
      [] compute \in {"solid_rock", "topographic_suitability"} -> 90
      [] compute \in {"water_source_availability", "water_storage_capacity",
                      "drainage_density"} -> 120
      [] compute = "flood_risk" -> 500
      [] OTHER -> 20

\* definition.compute(region): the ComputedLayer.  Every compute function of the
\* catalog passes a classification_image, named <band>_class.
ComputedLayer(definition) ==
    [band |-> ComputeBand(definition.compute),
     scale |-> ComputeScale(definition.compute),
     has_classification |-> TRUE,
     classification_band |-> ComputeBand(definition.compute) \o "_class"]

\* A pixel of a raster: masked, or a value.  A percentage is kept in hundredths
\* of a point (33.34 is 3334), a class as it is.
Pixel(v) == [masked |-> FALSE, v |-> v]
MaskedPixel == [masked |-> TRUE, v |-> 0]

\* image.clamp(lo, hi)
Clamp(lo, hi, x) == IF x < lo THEN lo ELSE IF x > hi THEN hi ELSE x

\* classification_from_percentage with the divisor 33.33.
classification_from_percentage_3333(pixel) ==
    IF pixel.masked THEN MaskedPixel
    ELSE Pixel(Clamp(0, 2, pixel.v \div 3333))

\* classification_from_percentage: image.divide(33.34).floor().int().clamp(0, 2).
\* A masked pixel stays masked.
classification_from_percentage(pixel) ==
    IF pixel.masked THEN MaskedPixel
    ELSE Pixel(Clamp(0, 2, pixel.v \div 3334))

ComputeFunctions == {LAYER_DEFINITIONS[i].compute : i \in 1..Len(LAYER_DEFINITIONS)}

\* The raster a compute function hands to classification_from_percentage, at a
\* pixel of the image it returns: the image itself, except in undisturbed_areas,
\* which hands over natural.unmask(0).
ClassificationSource(compute, pixel) ==
    IF compute = "undisturbed_areas" /\ pixel.masked THEN Pixel(0) ELSE pixel

\* A compute function at one pixel: the image and the classification_image of its
\* ComputedLayer.
ComputeAtPixel(compute, pixel) ==
    [image |-> pixel,
     classification_image |->
        classification_from_percentage(ClassificationSource(compute, pixel))]

----------------------------------------------------------------------------
(* The remote service: what a call returns when it returns *)

\* What the remote reductions find in the region of a request.
StatsKinds(point) == IF point = "outside" THEN {"null", "missing"}
                                          ELSE {"values", "null"}
HistKinds(point) == IF point = "outside" THEN {"null", "missing", "empty"}
                                         ELSE {"counts", "null"}

\* The request bodies, each with region data that fits where its point lies.
RequestBodies ==
    { [point |-> p, buffer |-> b, data |-> [stats |-> d[1], hist |-> d[2]]]
      : p \in {"inside", "outside"}, b \in BufferBodies,
        d \in {"values", "null", "missing"} \X {"counts", "null", "missing", "empty"} }

IsRequestBody(body) == /\ body.data.stats \in StatsKinds(body.point)
                       /\ body.data.hist \in HistKinds(body.point)

\* ee.Number(region.area()).divide(1_000_000).getInfo(): an empty region has area
\* 0, a disc of radius r metres about 3 (r / 1000)^2 square kilometres.
RemoteArea(req) ==
    IF req.point = "outside" THEN 0
    ELSE 3 * (req.valid.buffer_meters \div 1000) * (req.valid.buffer_meters \div 1000)

\* image.reduceRegion(mean, minMax, stdDev).getInfo()
RemoteStats(req, band) ==
    CASE req.data.stats = "values" ->
           [k \in {band \o "_mean", band \o "_min", band \o "_max", band \o "_stdDev"} |->
              CASE k = band \o "_mean" -> Num(50)
                [] k = band \o "_min" -> Num(0)
                [] k = band \o "_max" -> Num(90)
                [] OTHER -> Num(20)]
      [] req.data.stats = "null" ->
           [k \in {band \o "_mean", band \o "_min", band \o "_max", band \o "_stdDev"} |->
              Null]
      [] OTHER -> << >>

\* image.bandNames().getInfo()
RemoteBandNames(band) == << band >>

\* A frequency histogram as reduceRegion(...).getInfo() returns it, read at the
\* classification band: no entry, a null entry, or the counts per class key.
Histogram(has_band, is_null, counts) ==
    [has_band |-> has_band, is_null |-> is_null, counts |-> counts]

NoHistogram == Histogram(FALSE, FALSE, << >>)

RemoteHistogram(req, band) ==
    CASE req.data.hist = "counts" -> Histogram(TRUE, FALSE, ("0" :> 1 @@ "1" :> 2 @@ "2" :> 1))
      [] req.data.hist = "empty" -> Histogram(TRUE, FALSE, << >>)
      [] req.data.hist = "null" -> Histogram(TRUE, TRUE, << >>)
      [] OTHER -> NoHistogram

\* A remote call returns only for an expression the service can evaluate: a buffer
\* with no distance cannot be.
RemoteCanAnswer(req) == ~req.valid.is_none

----------------------------------------------------------------------------
(* services/analysis_service.py *)

\* stats.get(key, 0.0) or 0.0
GetOrZero(stats, key) ==
    IF key \in DOMAIN stats /\ ~stats[key].null THEN Num(stats[key].v) ELSE Num(0)

\* _compute_statistics, after its two remote calls have returned: the keyword
\* arguments are mean, min, max and std_dev.
_compute_statistics(stats, band_name) ==
    LayerStatistics(("mean" :> GetOrZero(stats, band_name \o "_mean"))
                 @@ ("min" :> GetOrZero(stats, band_name \o "_min"))
                 @@ ("max" :> GetOrZero(stats, band_name \o "_max"))
                 @@ ("std_dev" :> GetOrZero(stats, band_name \o "_stdDev")))

\* int(cls) and str(n) on the class keys of a histogram.
ClassKeys == {"0", "1", "2"}
IntOfKey(k) == CASE k = "0" -> 0 [] k = "1" -> 1 [] OTHER -> 2
StrOfInt(n) == CASE n = 0 -> "0" [] n = 1 -> "1" [] OTHER -> "2"

RECURSIVE SumOver(_, _)
SumOver(f, keys) ==
    IF keys = {} THEN 0
    ELSE LET k == CHOOSE x \in keys : TRUE
         IN  f[k] + SumOver(f, keys \ {k})

\* sum(class_counts.values())
SumValues(f) == SumOver(f, DOMAIN f)

\* (count / total) * 100, in units of 1/PctScale of a percentage point.
Percentage(count, total) == (count * 100 * PctScale) \div total

NoneSummary == [is_none |-> TRUE, entries |-> << >>]

\* _compute_classification_summary returning fractions (no * 100).
_compute_classification_summary_fraction(has_image, histogram) ==
    IF ~has_image THEN NoneSummary
    ELSE IF ~histogram.has_band \/ histogram.is_null \/ DOMAIN histogram.counts = {}
      THEN NoneSummary
    ELSE LET class_counts == histogram.counts
             total == SumValues(class_counts)
         IN  IF total = 0 THEN NoneSummary
             ELSE [is_none |-> FALSE,
                   entries |->
                     [k \in {StrOfInt(IntOfKey(c)) : c \in DOMAIN class_counts} |->
                        LET cls == CHOOSE c \in DOMAIN class_counts :
                                      StrOfInt(IntOfKey(c)) = k
                        IN  (class_counts[cls] * PctScale) \div total]]

\* _compute_classification_summary without the tests for an empty entry and a
\* zero total.
_compute_classification_summary_keeps_empty(has_image, histogram) ==
    IF ~has_image THEN NoneSummary
    ELSE IF ~histogram.has_band \/ histogram.is_null
      THEN NoneSummary
    ELSE LET class_counts == histogram.counts
             total == SumValues(class_counts)
         IN  IF total = 0 THEN [is_none |-> FALSE, entries |-> << >>]
             ELSE [is_none |-> FALSE,
                   entries |->
                     [k \in {StrOfInt(IntOfKey(c)) : c \in DOMAIN class_counts} |->
                        LET cls == CHOOSE c \in DOMAIN class_counts :
                                      StrOfInt(IntOfKey(c)) = k
                        IN  Percentage(class_counts[cls], total)]]

\* _compute_classification_summary, after its two remote calls have returned:
\* histogram is the reduction's result read at the classification band.
_compute_classification_summary(has_image, histogram) ==
    IF ~has_image THEN NoneSummary
    ELSE IF ~histogram.has_band \/ histogram.is_null \/ DOMAIN histogram.counts = {}
      THEN NoneSummary
    ELSE LET class_counts == histogram.counts
             total == SumValues(class_counts)
         IN  IF total = 0 THEN NoneSummary
             ELSE [is_none |-> FALSE,
                   entries |->
                     [k \in {StrOfInt(IntOfKey(c)) : c \in DOMAIN class_counts} |->
                        LET cls == CHOOSE c \in DOMAIN class_counts :
                                      StrOfInt(IntOfKey(c)) = k
                        IN  Percentage(class_counts[cls], total)]]

\* _build_tile_url and _build_thumb_url, from what getMapId and getThumbURL return.
_build_tile_url(band) == "https://earthengine.googleapis.com/map/" \o band
_build_thumb_url(band) == "thumb/" \o band

NoStatistics == [exc |-> "", mean |-> 0, min |-> 0, max |-> 0, std_dev |-> 0]

\* The local variables of run_analysis and _evaluate_layer before the first call.
NoWork == [region |-> "", area |-> 0, i |-> 0, results |-> << >>, stats |-> << >>,
           statistics |-> NoStatistics, histogram |-> NoHistogram,
           classification |-> NoneSummary, tile_url |-> ""]

\* run_analysis up to its first remote call: initialize_earth_engine(), then
\* _create_analysis_region (get_algeria_geometry, point, buffer, intersection: lazy
\* expressions).  region.area() is the call the handler then blocks on.
run_analysis_begin(valid, point, cache, ee, config, os_environ, outcome) ==
    LET e == initialize_earth_engine(ee, os_environ, outcome)
        g == get_algeria_geometry(cache, e, config, os_environ, outcome)
    IN  IF e.exc # ""
          THEN [exc |-> e.exc, ee |-> e, cache |-> cache, built |-> 0, called |-> 0,
                work |-> NoWork]
        ELSE IF g.exc # ""
          THEN [exc |-> g.exc, ee |-> g.ee, cache |-> g.cache, built |-> g.built,
                called |-> 1, work |-> NoWork]
        ELSE [exc |-> "", ee |-> g.ee, cache |-> g.cache, built |-> g.built,
              called |-> 1,
              work |-> [NoWork EXCEPT !.region = point \o " within " \o g.value]]

\* How the handler goes on: blocked on the next remote call, returned, or raised.
Issue(call, w) == [pc |-> call, work |-> w, exc |-> "", issued |-> 1]
Return(w) == [pc |-> "idle", work |-> w, exc |-> "", issued |-> 0]
Raise(w, exc) == [pc |-> "idle", work |-> w, exc |-> exc, issued |-> 0]

\* run_analysis with _evaluate_layer requesting the tile and thumbnail URLs before
\* the statistics and the histogram.
Resume_urls_first(p, w, req) ==
    LET definition == LAYER_DEFINITIONS[w.i]
        computed == ComputedLayer(definition)
    IN  CASE p = "area" ->
               LET w1 == [w EXCEPT !.area = RemoteArea(req)]
               IN  IF Len(LAYER_DEFINITIONS) = 0 THEN Return(w1)
                   ELSE Issue("tile", [w1 EXCEPT !.i = 1])
          [] p = "tile" ->
               Issue("thumb", [w EXCEPT !.tile_url = _build_tile_url(computed.band)])
          [] p = "thumb" ->
               Issue("stats", w)
          [] p = "stats" ->
               Issue("stats_band", [w EXCEPT !.stats = RemoteStats(req, computed.band)])
          [] p = "stats_band" ->
               LET band_name == Head(RemoteBandNames(computed.band))
                   statistics == _compute_statistics(w.stats, band_name)
               IN  IF statistics.exc # "" THEN Raise(w, statistics.exc)
                   ELSE Issue("hist", [w EXCEPT !.statistics = statistics])
          [] p = "hist" ->
               Issue("hist_band",
                     [w EXCEPT !.histogram =
                        RemoteHistogram(req, computed.classification_band)])
          [] OTHER ->
               LET result == [id |-> definition.id,
                              tile_url_template |-> w.tile_url,
                              thumb_url |-> _build_thumb_url(computed.band),
                              statistics |-> w.statistics,
                              classification_summary |->
                                 _compute_classification_summary(TRUE, w.histogram)]
                   w1 == [w EXCEPT !.results = Append(@, result)]
               IN  IF w.i < Len(LAYER_DEFINITIONS)
                     THEN Issue("tile", [w1 EXCEPT !.i = w.i + 1])
                     ELSE Return(w1)

\* run_analysis and _evaluate_layer from the return of the remote call p to the
\* next remote call, the return of the AnalysisResponse or an exception.
Resume(p, w, req) ==
    LET definition == LAYER_DEFINITIONS[w.i]
        computed == ComputedLayer(definition)
    IN  CASE p = "area" ->
               LET w1 == [w EXCEPT !.area = RemoteArea(req)]
               IN  IF Len(LAYER_DEFINITIONS) = 0 THEN Return(w1)
                   ELSE Issue("stats", [w1 EXCEPT !.i = 1])
          [] p = "stats" ->
               Issue("stats_band", [w EXCEPT !.stats = RemoteStats(req, computed.band)])
          [] p = "stats_band" ->
               LET band_name == Head(RemoteBandNames(computed.band))
                   statistics == _compute_statistics(w.stats, band_name)
                   w1 == [w EXCEPT !.statistics = statistics]
               IN  IF statistics.exc # "" THEN Raise(w, statistics.exc)
                   ELSE IF computed.has_classification THEN Issue("hist", w1)
                   ELSE Issue("tile",
                              [w1 EXCEPT !.classification =
                                 _compute_classification_summary(FALSE, NoHistogram)])
          [] p = "hist" ->
               Issue("hist_band",
                     [w EXCEPT !.histogram =
                        RemoteHistogram(req, computed.classification_band)])
          [] p = "hist_band" ->
               Issue("tile",
                     [w EXCEPT !.classification =
                        _compute_classification_summary(TRUE, w.histogram)])
          [] p = "tile" ->
               Issue("thumb", [w EXCEPT !.tile_url = _build_tile_url(computed.band)])
          [] OTHER ->
               LET result == [id |-> definition.id,
                              tile_url_template |-> w.tile_url,
                              thumb_url |-> _build_thumb_url(computed.band),
                              statistics |-> w.statistics,
                              classification_summary |-> w.classification]
                   w1 == [w EXCEPT !.results = Append(@, result)]
               IN  IF w.i < Len(LAYER_DEFINITIONS)
                     THEN Issue("stats", [w1 EXCEPT !.i = w.i + 1])
                     ELSE Return(w1)

----------------------------------------------------------------------------
(* main.py *)

NoBody == [service_account |-> "", region_asset |-> "", region_area_sqkm |-> 0,
           layers |-> << >>]

NoResponse == [kind |-> "none", status |-> 0, detail |-> "", body |-> NoBody]

\* health_check reporting the default asset instead of the configured one.
health_check_default_asset(config) ==
    [kind |-> "health", status |-> 200, detail |-> "ok",
     body |-> [NoBody EXCEPT !.service_account = config.ee_service_account,
                             !.region_asset = DefaultAssetId]]

\* GET /health
health_check(config) ==
    [kind |-> "health", status |-> 200, detail |-> "ok",
     body |-> [NoBody EXCEPT !.service_account = config.ee_service_account,
                             !.region_asset = config.algeria_asset_id]]

\* The 422 of request validation.
ValidationResponse ==
    [kind |-> "analysis", status |-> 422, detail |-> "validation error",
     body |-> NoBody]

\* perform_analysis answering with the layers gathered so far when run_analysis raises.
perform_analysis_partial(exc, w) ==
    [kind |-> "analysis", status |-> 200, detail |-> "",
     body |-> [NoBody EXCEPT !.region_area_sqkm = w.area, !.layers = w.results]]

\* POST /analysis: the AnalysisResponse of run_analysis, or a 500 whose detail is
\* str(exc) for any exception it raised.
perform_analysis(exc, w) ==
    IF exc # ""
      THEN [kind |-> "analysis", status |-> 500, detail |-> exc, body |-> NoBody]
      ELSE [kind |-> "analysis", status |-> 200, detail |-> "",
            body |-> [NoBody EXCEPT !.region_area_sqkm = w.area,
                                    !.layers = w.results]]

----------------------------------------------------------------------------
(* The process: module import, then the two routes served one at a time      *)
(* (both handlers are coroutines that never await, so a handler that blocks  *)
(* on a remote call blocks the event loop).                                  *)

NoRequest == [point |-> "", buffer |-> [kind |-> "omitted", n |-> 0],
              data |-> [stats |-> "", hist |-> ""],
              valid |-> [err |-> "", is_none |-> FALSE, buffer_meters |-> 0]]

RemoteError == "EEException: remote call failed"

NotStarted ==
    /\ phase = "start"
    /\ settings = NoSettings
    /\ credentials = FALSE
    /\ nInitialize = 0
    /\ nCredentials = 0
    /\ geomCache = NoGeometry
    /\ nGeomBuilds = 0
    /\ nGeomCalls = 0
    /\ request = NoRequest
    /\ pc = "idle"
    /\ work = NoWork
    /\ nRemote = 0
    /\ calls = << >>
    /\ entered = FALSE
    /\ raised = ""
    /\ response = NoResponse
    /\ nRequests = 0

Init ==
    /\ environ \in EnvMaps(PrivateKeyValues)
    /\ NotStarted
    /\ arg = << >>
    /\ ret = << >>

\* config.py: settings = Settings.from_env()
LoadConfig ==
    /\ phase = "start"
    /\ settings' = from_env(TRUE, environ, environ)
    /\ phase' = IF settings'.err # "" THEN "crashed" ELSE "config"
    /\ UNCHANGED <<environ, credentials, nInitialize, nCredentials, geomCache,
                   nGeomBuilds, nGeomCalls, request, pc, work, nRemote, calls,
                   entered, raised, response, nRequests, arg, ret>>

\* The outcomes that can differ: none is consulted once the credential flag is set.
OutcomesNow == IF credentials THEN {"ok"} ELSE InitializeOutcomes

\* A module-level initialize_earth_engine(): an exception ends the import.
ImportCall(from, to) ==
    /\ phase = from
    /\ \E outcome \in OutcomesNow :
          LET e == initialize_earth_engine(EE, environ, outcome)
          IN  /\ credentials' = e.credentials
              /\ nInitialize' = e.nInitialize
              /\ nCredentials' = e.nCredentials
              /\ phase' = IF e.exc # "" THEN "crashed" ELSE to
    /\ UNCHANGED <<environ, settings, geomCache, nGeomBuilds, nGeomCalls, request,
                   pc, work, nRemote, calls, entered, raised, response, nRequests,
                   arg, ret>>

\* services/layer_definitions.py, line 11
ImportLayerDefinitions == ImportCall("config", "layers")

\* services/analysis_service.py, line 13
ImportAnalysisService == ImportCall("layers", "serving")

\* GET /health
HealthCheck ==
    /\ phase = "serving"
    /\ pc = "idle"
    /\ response' = health_check(settings)
    /\ UNCHANGED <<environ, phase, settings, credentials, nInitialize, nCredentials,
                   geomCache, nGeomBuilds, nGeomCalls, request, pc, work, nRemote,
                   calls, entered, raised, nRequests, arg, ret>>

\* POST /analysis arrives: the body is validated; a valid request enters
\* run_analysis, which runs to its first remote call.
ReceiveRequest ==
    /\ phase = "serving"
    /\ pc = "idle"
    /\ nRequests < MaxRequests
    /\ \E body \in {b \in RequestBodies : IsRequestBody(b)},
          outcome \in OutcomesNow :
          LET valid == AnalysisRequest(body)
              r == run_analysis_begin(valid, body.point, geomCache, EE, settings,
                                      environ, outcome)
          IN  /\ request' = [point |-> body.point, buffer |-> body.buffer,
                             data |-> body.data, valid |-> valid]
              /\ nRequests' = nRequests + 1
              /\ IF valid.err # ""
                   THEN /\ response' = ValidationResponse
                        /\ entered' = FALSE
                        /\ raised' = ""
                        /\ nRemote' = 0
                        /\ calls' = << >>
                        /\ work' = NoWork
                        /\ UNCHANGED <<pc, credentials, nInitialize, nCredentials,
                                       geomCache, nGeomBuilds, nGeomCalls>>
                   ELSE /\ entered' = TRUE
                        /\ raised' = r.exc
                        /\ credentials' = r.ee.credentials
                        /\ nInitialize' = r.ee.nInitialize
                        /\ nCredentials' = r.ee.nCredentials
                        /\ geomCache' = r.cache
                        /\ nGeomBuilds' = nGeomBuilds + r.built
                        /\ nGeomCalls' = nGeomCalls + r.called
                        /\ work' = r.work
                        /\ IF r.exc # ""
                             THEN /\ pc' = "idle"
                                  /\ nRemote' = 0
                                  /\ calls' = << >>
                                  /\ response' = perform_analysis(r.exc, r.work)
                             ELSE /\ pc' = "area"
                                  /\ nRemote' = 1
                                  /\ calls' = << [call |-> "area", layer |-> 0] >>
                                  /\ UNCHANGED response
    /\ UNCHANGED <<environ, phase, settings, arg, ret>>

\* The remote call the handler is blocked on returns, and the handler runs on.
RemoteReturn ==
    /\ pc # "idle"
    /\ RemoteCanAnswer(request)
    /\ LET r == Resume(pc, work, request)
       IN  /\ pc' = r.pc
           /\ work' = r.work
           /\ nRemote' = nRemote + r.issued
           /\ calls' = IF r.issued = 1
                         THEN Append(calls, [call |-> r.pc, layer |-> r.work.i])
                         ELSE calls
           /\ raised' = r.exc
           /\ response' = IF r.pc = "idle" THEN perform_analysis(r.exc, r.work)
                                           ELSE response
    /\ UNCHANGED <<environ, phase, settings, credentials, nInitialize, nCredentials,
                   geomCache, nGeomBuilds, nGeomCalls, request, entered, nRequests,
                   arg, ret>>

\* The remote call the handler is blocked on raises.
RemoteRaise ==
    /\ pc # "idle"
    /\ pc' = "idle"
    /\ raised' = RemoteError
    /\ response' = perform_analysis(RemoteError, work)
    /\ UNCHANGED <<environ, phase, settings, credentials, nInitialize, nCredentials,
                   geomCache, nGeomBuilds, nGeomCalls, request, work, nRemote,
                   calls, entered, nRequests, arg, ret>>

Next ==
    \/ LoadConfig
    \/ ImportLayerDefinitions
    \/ ImportAnalysisService
    \/ HealthCheck
    \/ ReceiveRequest
    \/ RemoteReturn
    \/ RemoteRaise

Spec == Init /\ [][Next]_vars

----------------------------------------------------------------------------
(* Settings.from_env applied on its own to a mapping (or to none) *)

NoEnv == [k \in EnvKeys |-> Absent]

FromEnvArgs == {[is_none |-> TRUE, env |-> NoEnv]}
               \cup {[is_none |-> FALSE, env |-> e] : e \in EnvMaps({Absent})}

InitCfg ==
    /\ environ \in EnvMaps({Absent})
    /\ NotStarted
    /\ arg \in {<<a>> : a \in FromEnvArgs}
    /\ ret = << >>

CallFromEnv ==
    /\ ret = << >>
    /\ ret' = << from_env(arg[1].is_none, arg[1].env, environ) >>
    /\ UNCHANGED <<environ, arg>>
    /\ UNCHANGED procVars

NextCfg == CallFromEnv

SpecCfg == InitCfg /\ [][NextCfg]_vars

----------------------------------------------------------------------------
(* _compute_classification_summary applied on its own *)

Histograms ==
    {NoHistogram, Histogram(TRUE, TRUE, << >>)}
    \cup {Histogram(TRUE, FALSE, c) :
            c \in UNION {[S -> 0..MaxCount] : S \in SUBSET ClassKeys}}

InitCls ==
    /\ environ = NoEnv
    /\ NotStarted
    /\ arg \in {<<[has_image |-> b, histogram |-> h]>> :
                  b \in BOOLEAN, h \in Histograms}
    /\ ret = << >>

CallClassificationSummary ==
    /\ ret = << >>
    /\ ret' = << _compute_classification_summary(arg[1].has_image, arg[1].histogram) >>
    /\ UNCHANGED <<environ, arg>>
    /\ UNCHANGED procVars

NextCls == CallClassificationSummary

SpecCls == InitCls /\ [][NextCls]_vars

----------------------------------------------------------------------------
(* Claims *)

\* A POST /analysis has been answered and its answer is the last response.
Answered == nRequests > 0 /\ pc = "idle" /\ response.kind = "analysis"

\* The last POST /analysis passed validation and no remote call of it raised.
RemoteWellFormed == Answered /\ request.valid.err = "" /\ raised # RemoteError

\* C1 (as claimed): a valid request whose remote calls all succeed is answered with
\* exactly ten layer results, the i-th carrying the id of the i-th catalog entry.
C1_TenLayersInCatalogOrder ==
    RemoteWellFormed =>
        /\ response.status = 200
        /\ Len(response.body.layers) = 10
        /\ Len(LAYER_DEFINITIONS) = 10
        /\ \A i \in 1..Len(response.body.layers) :
              response.body.layers[i].id = LAYER_DEFINITIONS[i].id

\* C2: a POST /analysis whose buffer_meters is a number below 1000 or above 50000
\* is answered 422, run_analysis is not entered and no remote call is issued for it.
OutOfRange == /\ nRequests > 0
              /\ request.buffer.kind = "int"
              /\ (request.buffer.n < 1000 \/ request.buffer.n > 50000)

C2_OutOfRangeRejectedBeforeRemote ==
    OutOfRange =>
        /\ pc = "idle"
        /\ ~entered
        /\ nRemote = 0
        /\ request.valid.err = "422"
        /\ (response.kind = "analysis" => response.status = 422)

C2_Witness ==
    /\ OutOfRange
    /\ request.buffer.n = 50001
    /\ response = ValidationResponse
    /\ nRequests = 2

\* C3: ee.Initialize is called at most once in a process, and once the credential
\* flag is set no call creates credentials or calls ee.Initialize again.
C3_InitializeAtMostOnce ==
    [][/\ nInitialize' <= 1
       /\ nCredentials' <= 1
       /\ (credentials => /\ credentials'
                          /\ nInitialize' = nInitialize
                          /\ nCredentials' = nCredentials)]_vars

C3_Witness ==
    /\ phase = "serving"
    /\ nInitialize = 1
    /\ nRequests = 2
    /\ entered
    /\ nGeomCalls = 2

\* C4: the body of get_algeria_geometry runs at most once in a process, every
\* request's region is built from the one cached geometry, and a cached geometry
\* is never replaced or dropped.
C4_GeometryBuiltOnce ==
    [][/\ nGeomBuilds' <= 1
       /\ (geomCache # NoGeometry => /\ geomCache' = geomCache
                                     /\ nGeomBuilds' = nGeomBuilds)
       /\ (pc' # "idle" =>
              /\ geomCache' # NoGeometry
              /\ work'.region = request'.point \o " within " \o geomCache')]_vars

C4_Witness ==
    /\ nGeomCalls = 2
    /\ nGeomBuilds = 1
    /\ pc = "area"
    /\ geomCache # NoGeometry

\* C5: GET /health answers 200 with the service account and the region asset that
\* were configured at process start, whatever POST /analysis calls came before,
\* and no request changes the settings.
ConfiguredAccount == environ["EE_SERVICE_ACCOUNT"]
ConfiguredAsset == IF environ["ALGERIA_REGION_ASSET"] = Absent
                     THEN "projects/ee-bensefiasofian/assets/Maine"
                     ELSE environ["ALGERIA_REGION_ASSET"]

C5_HealthReportsConfiguration ==
    /\ phase = "serving" =>
          /\ settings.ee_service_account = ConfiguredAccount
          /\ settings.algeria_asset_id = ConfiguredAsset
    /\ response.kind = "health" =>
          /\ response.status = 200
          /\ response.body.service_account = ConfiguredAccount
          /\ response.body.region_asset = ConfiguredAsset

C5_Witness ==
    /\ response.kind = "health"
    /\ nRequests = 2
    /\ entered
    /\ raised # ""
    /\ environ["ALGERIA_REGION_ASSET"] # Absent

\* C6: when a step of run_analysis raises, POST /analysis answers 500 with the
\* exception's message as detail and no layer results; a 200 carries a result for
\* every layer of the catalog.
C6_ExceptionIs500NoPartialResults ==
    (Answered /\ entered) =>
        /\ raised # "" => /\ response.status = 500
                          /\ response.detail = raised
                          /\ response.body.layers = << >>
        /\ raised = "" => /\ response.status = 200
                          /\ Len(response.body.layers) = Len(LAYER_DEFINITIONS)
        /\ response.status \in {200, 500}

C6_Witness ==
    /\ Answered
    /\ entered
    /\ raised # ""
    /\ raised # RemoteError
    /\ work.i = 1
    /\ response.status = 500

\* C7 (as claimed): a valid request whose point lies outside the study area, with
\* the remote reductions returning missing or null values, is answered 200 with
\* region_area_sqkm 0 and all-zero statistics for every layer.
C7_EmptyRegionZeroStatistics ==
    (RemoteWellFormed /\ request.point = "outside") =>
        /\ raised = ""
        /\ response.status = 200
        /\ response.body.region_area_sqkm = 0
        /\ Len(response.body.layers) = Len(LAYER_DEFINITIONS)
        /\ \A i \in 1..Len(response.body.layers) :
              LET st == response.body.layers[i].statistics
              IN  st.mean = 0 /\ st.min = 0 /\ st.max = 0 /\ st.std_dev = 0

\* C8: for a histogram with a positive total count, the percentages of the
\* classification summary sum to 100 within 0.01 and each lies in [0, 100].
PositiveTotal ==
    /\ arg # << >>
    /\ arg[1].has_image
    /\ arg[1].histogram.has_band
    /\ ~arg[1].histogram.is_null
    /\ SumValues(arg[1].histogram.counts) > 0

C8_PercentagesSumTo100 ==
    (ret # << >> /\ PositiveTotal) =>
        /\ ~ret[1].is_none
        /\ SumValues(ret[1].entries) >= 100 * PctScale - PctScale \div 100
        /\ SumValues(ret[1].entries) <= 100 * PctScale + PctScale \div 100
        /\ \A k \in DOMAIN ret[1].entries :
              ret[1].entries[k] >= 0 /\ ret[1].entries[k] <= 100 * PctScale

C8_Witness ==
    /\ ret # << >>
    /\ PositiveTotal
    /\ arg[1].histogram.counts = ("0" :> 1 @@ "1" :> 1 @@ "2" :> 1)
    /\ SumValues(ret[1].entries) < 100 * PctScale

\* C9 (as claimed): Settings.from_env raises when EE_SERVICE_ACCOUNT or
\* EE_CREDENTIALS_PATH is missing or empty in the mapping it is given, or
\* EE_DEFAULT_BUFFER_M is present and not an integer; when it returns, the settings
\* hold the values of that mapping (the path resolved), with the defaults for the
\* absent optional variables.
GivenMapping == IF arg[1].is_none THEN environ ELSE arg[1].env

C9_FromEnvRaisesOrKeepsMapping ==
    ret # << >> =>
        /\ ( \/ GivenMapping["EE_SERVICE_ACCOUNT"] \in {Absent, ""}
             \/ GivenMapping["EE_CREDENTIALS_PATH"] \in {Absent, ""}
             \/ GivenMapping["EE_DEFAULT_BUFFER_M"] = "abc" ) => ret[1].err # ""
        /\ ret[1].err = "" =>
              /\ ret[1].ee_service_account = GivenMapping["EE_SERVICE_ACCOUNT"]
              /\ ret[1].ee_credentials_path =
                    ResolvePath(GivenMapping["EE_CREDENTIALS_PATH"])
              /\ ret[1].algeria_asset_id =
                    (IF GivenMapping["ALGERIA_REGION_ASSET"] = Absent
                       THEN "projects/ee-bensefiasofian/assets/Maine"
                       ELSE GivenMapping["ALGERIA_REGION_ASSET"])
              /\ ret[1].default_buffer_m =
                    (IF GivenMapping["EE_DEFAULT_BUFFER_M"] = Absent
                       THEN 10000 ELSE 5000)

\* C10: the classification summary is None exactly when there is no classification
\* image, or the histogram has no entry, a null entry or an empty entry for the
\* band, or the counts total zero; otherwise it has one entry per class key of the
\* histogram.
C10_SummaryAbsentExactlyWhenNoPixels ==
    ret # << >> =>
        /\ ret[1].is_none <=>
              \/ ~arg[1].has_image
              \/ ~arg[1].histogram.has_band
              \/ arg[1].histogram.is_null
              \/ arg[1].histogram.counts = << >>
              \/ SumValues(arg[1].histogram.counts) = 0
        /\ ~ret[1].is_none => DOMAIN ret[1].entries = DOMAIN arg[1].histogram.counts

C10_Witness ==
    /\ ret # << >>
    /\ arg[1].has_image
    /\ arg[1].histogram.counts = ("0" :> 0 @@ "2" :> 2)
    /\ ~ret[1].is_none
    /\ DOMAIN ret[1].entries = {"0", "2"}

\* C11: within one request the remote calls are issued one at a time in this
\* order: the region area, then for each layer in catalog order the statistics
\* reduction, the classification histogram, the tile map id and the thumbnail URL
\* (the band-name lookups of the two reductions aside); once a call has failed or
\* run_analysis has raised, no further call is issued for that request.
ClaimedCalls == {"area", "stats", "hist", "tile", "thumb"}

ClaimedOrder ==
    [k \in 1..(1 + 4 * Len(LAYER_DEFINITIONS)) |->
       IF k = 1 THEN [call |-> "area", layer |-> 0]
       ELSE [call |-> CASE (k - 2) % 4 = 0 -> "stats"
                        [] (k - 2) % 4 = 1 -> "hist"
                        [] (k - 2) % 4 = 2 -> "tile"
                        [] OTHER -> "thumb",
             layer |-> (k - 2) \div 4 + 1]]

IsClaimedCall(c) == c.call \in ClaimedCalls

IsPrefix(s, t) == Len(s) <= Len(t) /\ \A k \in 1..Len(s) : s[k] = t[k]

----------------------------------------------------------------------------
(* The compute functions of the catalog applied at one pixel *)

PixelValues == {MaskedPixel}
               \cup {Pixel(v) : v \in (0 - PixelMargin)..(10000 + PixelMargin)}

InitPct ==
    /\ environ = NoEnv
    /\ NotStarted
    /\ arg \in {<<[compute |-> c, pixel |-> px]>> :
                  c \in ComputeFunctions, px \in PixelValues}
    /\ ret = << >>

CallCompute ==
    /\ ret = << >>
    /\ ret' = << ComputeAtPixel(arg[1].compute, arg[1].pixel) >>
    /\ UNCHANGED <<environ, arg>>
    /\ UNCHANGED procVars

NextPct == CallCompute

SpecPct == InitPct /\ [][NextPct]_vars

\* The class the claim gives a percentage of v hundredths.
ClaimedClass(v) == IF v < 3334 THEN 0 ELSE IF v < 6668 THEN 1 ELSE 2

\* The classification of the image's own pixel, as claimed: a masked pixel has no
\* class, a value has its claimed class.
ClassifiedAsClaimed(pixel, class) ==
    IF pixel.masked THEN class.masked
    ELSE ~class.masked /\ class.v = ClaimedClass(pixel.v)

\* C12 (as claimed): the class of a percentage v is 0 below 33.34, 1 from 33.34 to
\* below 66.68 and 2 from 66.68 on, monotone in v, and every layer's classification
\* image is that classification of the raster whose statistics are reported.
C12_ClassificationOfReportedRaster ==
    ret # << >> =>
        /\ ClassifiedAsClaimed(ret[1].image, ret[1].classification_image)
        /\ ~ret[1].image.masked =>
              ret[1].classification_image.v <=
                 classification_from_percentage(Pixel(ret[1].image.v + 1)).v

\* C12 (amended): as claimed, except that undisturbed_areas classifies its reported
\* raster with the masked pixels set to 0, so a pixel masked out of its statistics
\* is in class 0.
C12_ClassificationOfUnmaskedRaster ==
    ret # << >> =>
        /\ (arg[1].compute # "undisturbed_areas" \/ ~ret[1].image.masked) =>
              ClassifiedAsClaimed(ret[1].image, ret[1].classification_image)
        /\ (arg[1].compute = "undisturbed_areas" /\ ret[1].image.masked) =>
              ret[1].classification_image = Pixel(0)
        /\ ~ret[1].classification_image.masked =>
              ret[1].classification_image.v \in {0, 1, 2}
        /\ ~ret[1].image.masked =>
              ret[1].classification_image.v <=
                 classification_from_percentage(Pixel(ret[1].image.v + 1)).v

C12_Witness ==
    /\ ret # << >>
    /\ arg[1].compute = "undisturbed_areas"
    /\ arg[1].pixel = Pixel(10000)
    /\ ret[1].image = Pixel(10000)
    /\ ret[1].classification_image = Pixel(2)

\* C13 (as claimed): a request that enters run_analysis carries a buffer_meters
\* that is an integer from 1000 to 50000, 10000 when the body left it out.
C13_BufferInRangeWhenEntered ==
    (nRequests > 0 /\ entered) =>
        /\ ~request.valid.is_none
        /\ request.valid.buffer_meters >= 1000
        /\ request.valid.buffer_meters <= 50000
        /\ request.buffer.kind = "omitted" => request.valid.buffer_meters = 10000

====
